---------------------------- MODULE Spec2Model ----------------------------
(***************************************************************************)
(* dodola: command line interface (src/dodola/cli.py) and the services it  *)
(* drives.  The command functions of cli.py are modelled from their code.  *)
(* The services they call for region-parallel output (StorePrimer,         *)
(* RegionWriter) and the adjustment engines (QDM, QPLAD, wet-day           *)
(* correction) are not in src/dodola/services.py; they are modelled from   *)
(* the specification, sections 3 to 7, and are marked so where defined.    *)
(*                                                                         *)
(* Text is a sequence of one-character strings, so that str.split and      *)
(* int() are computed the way Python computes them.                        *)
(***************************************************************************)
EXTENDS Integers, Sequences, FiniteSets, TLC

VARIABLES
  cli,      \* the last command run: its option values and what it did
  store,    \* the output Zarr store: chunk grid, coordinates, attrs, data
  writers,  \* the independent region-writer processes
  qdm,      \* QDM engine: trained model, input value, adjusted value
  qplad,    \* QPLAD engine: reference series, trained factors, input, output
  wdf       \* wet-day frequency correction: series, reference, result

vars == <<cli, store, writers, qdm, qplad, wdf>>

(***************************************************************************)
(* Python values.                                                          *)
(***************************************************************************)
None == [some |-> FALSE]
Some(v) == [some |-> TRUE, val |-> v]

\* A callable that returned v, or raised the exception exc.
Returned(v) == [raised |-> FALSE, val |-> v]
Raised(exc) == [raised |-> TRUE, exc |-> exc]

EmptyDict == [k \in {} |-> <<>>]

\* d[k] = v of a dict: a later assignment to a key replaces the earlier one.
DictSet(d, k, v) == [x \in (DOMAIN d) \cup {k} |-> IF x = k THEN v ELSE d[x]]

\* d1 | d2 : the keys of both, d2's value where both have the key.
DictMerge(d1, d2) ==
  [x \in (DOMAIN d1) \cup (DOMAIN d2) |-> IF x \in DOMAIN d2 THEN d2[x] ELSE d1[x]]

(***************************************************************************)
(* str.split(sep): the pieces between the occurrences of sep, empty pieces *)
(* included; a text without sep is one piece.                              *)
(***************************************************************************)
RECURSIVE Split(_, _)
Split(s, sep) ==
  IF \A i \in 1..Len(s) : s[i] # sep
  THEN <<s>>
  ELSE LET i == CHOOSE j \in 1..Len(s) :
                  s[j] = sep /\ \A k \in 1..(j - 1) : s[k] # sep
       IN <<SubSeq(s, 1, i - 1)>> \o Split(SubSeq(s, i + 1, Len(s)), sep)

Digits == {"0", "1", "2", "3", "4", "5", "6", "7", "8", "9"}

DigitVal(c) ==
  CASE c = "0" -> 0 [] c = "1" -> 1 [] c = "2" -> 2 [] c = "3" -> 3
    [] c = "4" -> 4 [] c = "5" -> 5 [] c = "6" -> 6 [] c = "7" -> 7
    [] c = "8" -> 8 [] c = "9" -> 9

RECURSIVE DigitsVal(_)
DigitsVal(s) ==
  IF s = <<>> THEN 0
  ELSE 10 * DigitsVal(SubSeq(s, 1, Len(s) - 1)) + DigitVal(s[Len(s)])

IsDigits(s) == Len(s) >= 1 /\ \A i \in 1..Len(s) : s[i] \in Digits

\* int(s) accepts an optional sign and then at least one decimal digit (the
\* texts of this model hold no blanks and no underscores); anything else
\* raises ValueError.
IntOk(s) ==
  IF Len(s) >= 1 /\ s[1] \in {"-", "+"} THEN IsDigits(Tail(s)) ELSE IsDigits(s)

IntVal(s) ==
  IF s[1] = "-" THEN 0 - DigitsVal(Tail(s))
  ELSE IF s[1] = "+" THEN DigitsVal(Tail(s))
  ELSE DigitsVal(s)

(***************************************************************************)
(* slice called with the unpacked pieces: one argument is the stop, two    *)
(* are start and stop, three add the step; more raise TypeError.           *)
(***************************************************************************)
\* Slice as three plausible slips of the code would make it.
SliceNoStart(args) ==
  [start |-> None, stop |-> Some(args[Len(args)]), step |-> None]

SliceSwapped(args) ==
  CASE Len(args) = 1 -> [start |-> None, stop |-> Some(args[1]), step |-> None]
    [] Len(args) = 2 -> [start |-> Some(args[2]), stop |-> Some(args[1]), step |-> None]
    [] Len(args) = 3 -> [start |-> Some(args[2]), stop |-> Some(args[1]),
                         step |-> Some(args[3])]

SliceInclusiveStop(args) ==
  CASE Len(args) = 1 -> [start |-> None, stop |-> Some(args[1] + 1), step |-> None]
    [] Len(args) = 2 -> [start |-> Some(args[1]), stop |-> Some(args[2] + 1), step |-> None]
    [] Len(args) = 3 -> [start |-> Some(args[1]), stop |-> Some(args[2] + 1),
                         step |-> Some(args[3])]

Slice(args) ==
  CASE Len(args) = 1 -> [start |-> None, stop |-> Some(args[1]), step |-> None]
    [] Len(args) = 2 -> [start |-> Some(args[1]), stop |-> Some(args[2]), step |-> None]
    [] Len(args) = 3 -> [start |-> Some(args[1]), stop |-> Some(args[2]),
                         step |-> Some(args[3])]

\* "first_year, last_year = (int(x) for x in years.split(","))": the
\* generator is unpacked into exactly two names, each piece through int().
ParseYears(years) ==
  LET parts == Split(years, ",") IN
  IF Len(parts) >= 1 /\ ~IntOk(parts[1]) THEN Raised("ValueError")
  ELSE IF Len(parts) >= 2 /\ ~IntOk(parts[2]) THEN Raised("ValueError")
  ELSE IF Len(parts) # 2 THEN Raised("ValueError")
  ELSE Returned(<<IntVal(parts[1]), IntVal(parts[2])>>)

\* "{k: v for x in new_attrs for k, v in (x.split("="),)}" under
\* "if new_attrs:"; an entry that does not split in two raises ValueError.
\* The comprehension with key and value taken the wrong way round.
RECURSIVE UnpackAttrsFromSwapped(_, _)
UnpackAttrsFromSwapped(entries, d) ==
  IF entries = <<>> THEN Returned(Some(d))
  ELSE LET kv == Split(Head(entries), "=") IN
       IF Len(kv) # 2 THEN Raised("ValueError")
       ELSE UnpackAttrsFromSwapped(Tail(entries), DictSet(d, kv[2], kv[1]))

RECURSIVE UnpackAttrsFrom(_, _)
UnpackAttrsFrom(entries, d) ==
  IF entries = <<>> THEN Returned(Some(d))
  ELSE LET kv == Split(Head(entries), "=") IN
       IF Len(kv) # 2 THEN Raised("ValueError")
       ELSE UnpackAttrsFrom(Tail(entries), DictSet(d, kv[1], kv[2]))

UnpackAttrs(new_attrs) ==
  IF new_attrs = <<>> THEN Returned(None) ELSE UnpackAttrsFrom(new_attrs, EmptyDict)

\* The --selslice loop: "k, v = s.split("=")" and
\* "sel_slices_d[k] = slice" of the pieces of v.split(",") mapped through str.
RECURSIVE StrSlicesFrom(_, _)
StrSlicesFrom(entries, d) ==
  IF entries = <<>> THEN Returned(Some(d))
  ELSE LET kv == Split(Head(entries), "=") IN
       IF Len(kv) # 2 THEN Raised("ValueError")
       ELSE LET args == Split(kv[2], ",") IN
            IF Len(args) > 3 THEN Raised("TypeError")
            ELSE StrSlicesFrom(Tail(entries), DictSet(d, kv[1], Slice(args)))

StrSlices(entries) ==
  IF entries = <<>> THEN Returned(None) ELSE StrSlicesFrom(entries, EmptyDict)

\* The --iselslice and --out-zarr-region loops: "k, v = s.split("=")" and
\* "d[k] = slice" of the pieces of v.split(",") mapped through int.  The
\* star-unpacking draws every piece through int() before slice sees the
\* count, so a bad piece raises ValueError even when there are more than three.
\* The loop leaving out the entries it cannot read instead of raising.
RECURSIVE IntSlicesFromLenient(_, _)
IntSlicesFromLenient(entries, d) ==
  IF entries = <<>> THEN Returned(Some(d))
  ELSE LET kv == Split(Head(entries), "=") IN
       IF Len(kv) # 2 THEN IntSlicesFromLenient(Tail(entries), d)
       ELSE LET args == Split(kv[2], ",") IN
            IF \E i \in 1..Len(args) : ~IntOk(args[i])
            THEN IntSlicesFromLenient(Tail(entries), d)
            ELSE IF Len(args) > 3 THEN Raised("TypeError")
            ELSE IntSlicesFromLenient(Tail(entries),
                   DictSet(d, kv[1], Slice([i \in 1..Len(args) |-> IntVal(args[i])])))

RECURSIVE IntSlicesFrom(_, _)
IntSlicesFrom(entries, d) ==
  IF entries = <<>> THEN Returned(Some(d))
  ELSE LET kv == Split(Head(entries), "=") IN
       IF Len(kv) # 2 THEN Raised("ValueError")
       ELSE LET args == Split(kv[2], ",") IN
            IF \E i \in 1..Len(args) : ~IntOk(args[i]) THEN Raised("ValueError")
            ELSE IF Len(args) > 3 THEN Raised("TypeError")
            ELSE IntSlicesFrom(Tail(entries),
                   DictSet(d, kv[1], Slice([i \in 1..Len(args) |-> IntVal(args[i])])))

IntSlices(entries) ==
  IF entries = <<>> THEN Returned(None) ELSE IntSlicesFrom(entries, EmptyDict)

\* The range without its last year: range(first_year, last_year).
YearsRangeExclusive(first_year, last_year) ==
  {y \in first_year..last_year : y < last_year}

\* range(first_year, last_year + 1)
YearsRange(first_year, last_year) ==
  {y \in first_year..(last_year + 1) : y < last_year + 1}


(***************************************************************************)
(* The command functions of cli.py: what each hands to its service, or the *)
(* exception it raises before the service is called.  Options that are     *)
(* passed through untouched (simulation, qdm, variable, out) are left out. *)
(***************************************************************************)
PrimeQdmCli(years, zarr_region_dims, root_attrs_json_file, new_attrs) ==
  LET ys == ParseYears(years)
      at == UnpackAttrs(new_attrs)
  IN IF ys.raised THEN ys
     ELSE IF at.raised THEN at
     ELSE Returned([service |-> "prime_qdm_output_zarrstore",
                    years |-> ys.val,
                    zarr_region_dims |-> Split(zarr_region_dims, ","),
                    root_attrs_json_file |-> root_attrs_json_file,
                    new_attrs |-> at.val])

PrimeQpladCli(zarr_region_dims, root_attrs_json_file, new_attrs) ==
  LET at == UnpackAttrs(new_attrs)
  IN IF at.raised THEN at
     ELSE Returned([service |-> "prime_qplad_output_zarrstore",
                    zarr_region_dims |-> Split(zarr_region_dims, ","),
                    root_attrs_json_file |-> root_attrs_json_file,
                    new_attrs |-> at.val])

ApplyQdmCli(years, selslice, iselslice, out_zarr_region, root_attrs_json_file, new_attrs) ==
  LET ys == ParseYears(years)
      at == UnpackAttrs(new_attrs)
      sl == StrSlices(selslice)
      il == IntSlices(iselslice)
      rg == IntSlices(out_zarr_region)
  IN IF ys.raised THEN ys
     ELSE IF at.raised THEN at
     ELSE IF sl.raised THEN sl
     ELSE IF il.raised THEN il
     ELSE IF rg.raised THEN rg
     ELSE Returned([service |-> "apply_qdm",
                    years |-> YearsRange(ys.val[1], ys.val[2]),
                    sel_slice |-> sl.val,
                    isel_slice |-> il.val,
                    out_zarr_region |-> rg.val,
                    root_attrs_json_file |-> root_attrs_json_file,
                    new_attrs |-> at.val])

ApplyQpladCli(selslice, iselslice, out_zarr_region, root_attrs_json_file, new_attrs, wetday_post_correction) ==
  LET at == UnpackAttrs(new_attrs)
      sl == StrSlices(selslice)
      il == IntSlices(iselslice)
      rg == IntSlices(out_zarr_region)
  IN IF at.raised THEN at
     ELSE IF sl.raised THEN sl
     ELSE IF il.raised THEN il
     ELSE IF rg.raised THEN rg
     ELSE Returned([service |-> "apply_qplad",
                    sel_slice |-> sl.val,
                    isel_slice |-> il.val,
                    out_zarr_region |-> rg.val,
                    root_attrs_json_file |-> root_attrs_json_file,
                    new_attrs |-> at.val,
                    wet_day_post_correction |-> wetday_post_correction])

(***************************************************************************)
(* Option values the commands are run with.  str(n) of a natural number.   *)
(***************************************************************************)
DigitChar(d) ==
  CASE d = 0 -> "0" [] d = 1 -> "1" [] d = 2 -> "2" [] d = 3 -> "3"
    [] d = 4 -> "4" [] d = 5 -> "5" [] d = 6 -> "6" [] d = 7 -> "7"
    [] d = 8 -> "8" [] d = 9 -> "9"

RECURSIVE Str(_)
Str(n) == IF n < 10 THEN <<DigitChar(n)>> ELSE Str(n \div 10) \o <<DigitChar(n % 10)>>

\* "first,last"
YearsArg(first, last) == Str(first) \o <<",">> \o Str(last)

\* "dim=start,stop"
RangeArg(dim, start, stop) == dim \o <<"=">> \o Str(start) \o <<",">> \o Str(stop)

\* "key=value"
AttrArg(k, v) == k \o <<"=">> \o v


(***************************************************************************)
(* The simulation the commands read: a time axis of StepsPerYear steps for *)
(* each of NumYears years from 2020, a spatial axis of NY points, and the  *)
(* root attrs the data carries.  Dimension names are texts, as on the      *)
(* command line.                                                           *)
(***************************************************************************)
NumYears == 2
StepsPerYear == 2
NY == 2
MaxChunk == 3

DimT == <<"t">>
DimY == <<"y">>
Dims == {DimT, DimY}

SimYears == 2020..(2020 + NumYears - 1)

SimAttrs == (<<"a">> :> <<"s">>) @@ (<<"b">> :> <<"s">>)

\* The JSON files a command can be pointed at, by URL, and what each holds.
JsonFiles == {"attrs.json"}
JsonAttrs(url) == (<<"b">> :> <<"j">>) @@ (<<"c">> :> <<"j">>)

Writers == {"w1", "w2"}

(***************************************************************************)
(* StorePrimer (specification 4.1; services.prime_qdm_output_zarrstore and *)
(* services.prime_qplad_output_zarrstore are not in services.py).          *)
(***************************************************************************)
Divides(a, b) == b % a = 0

\* "Fails with a ConfigurationError if the requested chunk size does not
\* evenly divide (or is not divided by) the eventual write-region granularity
\* on any regioned dimension".
GeometryOk(region_dims, hint, gran) ==
  \A d \in region_dims : Divides(hint[d], gran[d]) \/ Divides(gran[d], hint[d])

\* Merge policy (specification 6): overrides over the JSON blob over the
\* attrs of the input data.
MergeAttrs(data_attrs, root_attrs_json_file, new_attrs) ==
  LET with_json == IF root_attrs_json_file.some
                   THEN DictMerge(data_attrs, JsonAttrs(root_attrs_json_file.val))
                   ELSE data_attrs
  IN IF new_attrs.some THEN DictMerge(with_json, new_attrs.val) ELSE with_json

\* The time coordinate of the years kept: one label <<year, step>> per index.
TimeCoords(years) ==
  LET kept == years \cap SimYears
      first == IF kept = {} THEN 0 ELSE CHOOSE y \in kept : \A z \in kept : y <= z
  IN [i \in 0..(Cardinality(kept) * StepsPerYear - 1) |->
        <<first + (i \div StepsPerYear), i % StepsPerYear>>]

Cells(extent) == (0..(extent[DimT] - 1)) \X (0..(extent[DimY] - 1))

Unprimed ==
  [primed |-> FALSE, outcome |-> "none", kind |-> "none",
   extent |-> [d \in Dims |-> 0], chunks |-> [d \in Dims |-> 1],
   coords |-> EmptyDict, attrs |-> EmptyDict,
   data |-> EmptyDict, argv |-> <<>>]

\* The store after the primer returns: full shape, chunk grid with the hinted
\* chunk on every region dimension (one chunk spanning the others), the
\* coordinates, the merged attrs, and every data cell unwritten.
StorePrimer(kind, years, region_dims, hint, gran, root_attrs_json_file, new_attrs, argv) ==
  IF ~GeometryOk(region_dims, hint, gran)
  THEN [Unprimed EXCEPT !.outcome = "ConfigurationError", !.argv = argv]
  ELSE LET coords == TimeCoords(years)
           extent == [d \in Dims |-> IF d = DimT THEN Cardinality(DOMAIN coords) ELSE NY]
       IN [primed |-> TRUE, outcome |-> "ok", kind |-> kind,
           extent |-> extent,
           chunks |-> [d \in Dims |-> IF d \in region_dims THEN hint[d]
                                      ELSE IF extent[d] = 0 THEN 1 ELSE extent[d]],
           coords |-> coords,
           attrs |-> MergeAttrs(SimAttrs, root_attrs_json_file, new_attrs),
           data |-> [c \in Cells(extent) |-> "unwritten"],
           argv |-> argv]

SeqRange(q) == {q[i] : i \in 1..Len(q)}

(***************************************************************************)
(* RegionWriter (specification 3, 4.2 and 5; services.apply_qdm and        *)
(* services.apply_qplad are not in services.py).  The regions of this model *)
(* name dimensions of the store and give no step.                          *)
(***************************************************************************)
\* The half-open index range of a region on dimension d: the slice's bounds,
\* an omitted start being 0 and an omitted stop the extent; the whole extent
\* on a dimension the region does not restrict.
ResolveRegion(st, region) ==
  [d \in Dims |->
     IF d \in DOMAIN region
     THEN <<IF region[d].start.some THEN region[d].start.val ELSE 0,
            IF region[d].stop.some THEN region[d].stop.val ELSE st.extent[d]>>
     ELSE <<0, st.extent[d]>>]

\* An index is a chunk boundary of dimension d: a multiple of the chunk size,
\* or the end of the array.
ChunkBoundary(st, d, i) == i % st.chunks[d] = 0 \/ i = st.extent[d]

\* "a RegionSpec is valid for a store only if its boundaries coincide with
\* chunk boundaries on every dimension it restricts".
RegionAligned(st, region) ==
  LET r == ResolveRegion(st, region)
  IN \A d \in DOMAIN region : ChunkBoundary(st, d, r[d][1]) /\ ChunkBoundary(st, d, r[d][2])

InRegion(r, c) == r[DimT][1] <= c[1] /\ c[1] < r[DimT][2] /\ r[DimY][1] <= c[2] /\ c[2] < r[DimY][2]

ChunkOf(st, c) == <<c[1] \div st.chunks[DimT], c[2] \div st.chunks[DimY]>>

\* The chunks a resolved region has cells in.
RegionChunks(st, r) == {ChunkOf(st, c) : c \in {x \in Cells(st.extent) : InRegion(r, x)}}

NoArgv == [out_zarr_region |-> <<>>, root_attrs_json_file |-> None, new_attrs |-> <<>>]

IdleWriter ==
  [pc |-> "idle", argv |-> NoArgv, region |-> [d \in Dims |-> <<0, 0>>],
   pending |-> {}, exc |-> "none", written |-> 0]

\* The writer's side of a region write up to its first chunk: the exception
\* it ends with, or the chunks it is about to write.
RegionWriter(st, call, argv) ==
  IF ~RegionAligned(st, call.out_zarr_region.val)
  THEN [IdleWriter EXCEPT !.pc = "failed", !.exc = "AlignmentError", !.argv = argv]
  ELSE LET r == ResolveRegion(st, call.out_zarr_region.val)
       IN [IdleWriter EXCEPT !.pc = IF RegionChunks(st, r) = {} THEN "done" ELSE "writing",
                             !.argv = argv, !.region = r, !.pending = RegionChunks(st, r)]

\* A region write that also merged the attrs it was given into the store.
RegionWriterMetaMerged(st, call) ==
  [attrs |-> MergeAttrs(st.attrs, call.root_attrs_json_file, call.new_attrs),
   coords |-> st.coords]

\* What a region write leaves in the store besides data: the metadata is
\* write-once by StorePrimer.
RegionWriterMeta(st, call) == [attrs |-> st.attrs, coords |-> st.coords]

\* One chunk of the writer's payload lands, whole: the store writes at the
\* granularity of chunks, atomically.
ChunkWritten(st, w, r, ch) ==
  [c \in DOMAIN st.data |-> IF ChunkOf(st, c) = ch /\ InRegion(r, c) THEN w ELSE st.data[c]]


(***************************************************************************)
(* The state machine of the output store: one of the two prime commands    *)
(* creates it, then independent processes each run one apply command with  *)
(* --out-zarr-region and write their chunks in any order, interleaved.     *)
(***************************************************************************)
CliIdle == [cmd |-> "none"]
QdmIdle == [pc |-> "none"]
QpladIdle == [pc |-> "none"]
WdfIdle == [pc |-> "none"]

PrimeArgv(years, zarr_region_dims, hint, gran, root_attrs_json_file, new_attrs) ==
  [years |-> years, zarr_region_dims |-> zarr_region_dims, hint |-> hint, gran |-> gran,
   root_attrs_json_file |-> root_attrs_json_file, new_attrs |-> new_attrs]

\* dodola prime-qdm-output-zarrstore.  hint and gran are the chunking of the
\* simulation and the region size the writers will use, per dimension.
PrimeQdm(years, zarr_region_dims, hint, gran, root_attrs_json_file, new_attrs) ==
  /\ ~store.primed
  /\ LET call == PrimeQdmCli(years, zarr_region_dims, root_attrs_json_file, new_attrs)
         argv == PrimeArgv(years, zarr_region_dims, hint, gran, root_attrs_json_file, new_attrs)
     IN store' = IF call.raised
                 THEN [Unprimed EXCEPT !.outcome = call.exc, !.argv = argv]
                 ELSE StorePrimer("qdm", (call.val.years[1])..(call.val.years[2]),
                                  SeqRange(call.val.zarr_region_dims), hint, gran,
                                  call.val.root_attrs_json_file, call.val.new_attrs, argv)
  /\ UNCHANGED <<writers, cli, qdm, qplad, wdf>>

\* dodola prime-qplad-output-zarrstore: the whole time axis of the simulation.
PrimeQplad(zarr_region_dims, hint, gran, root_attrs_json_file, new_attrs) ==
  /\ ~store.primed
  /\ LET call == PrimeQpladCli(zarr_region_dims, root_attrs_json_file, new_attrs)
         argv == PrimeArgv(<<>>, zarr_region_dims, hint, gran, root_attrs_json_file, new_attrs)
     IN store' = IF call.raised
                 THEN [Unprimed EXCEPT !.outcome = call.exc, !.argv = argv]
                 ELSE StorePrimer("qplad", SimYears,
                                  SeqRange(call.val.zarr_region_dims), hint, gran,
                                  call.val.root_attrs_json_file, call.val.new_attrs, argv)
  /\ UNCHANGED <<writers, cli, qdm, qplad, wdf>>

\* What a writer process does with the command's outcome: it ends with the
\* exception the command raised, or runs the service's region write.
WriterStep(w, call, argv) ==
  IF call.raised
  THEN /\ writers' = [writers EXCEPT ![w] =
                        [IdleWriter EXCEPT !.pc = "failed", !.exc = call.exc, !.argv = argv]]
       /\ UNCHANGED store
  ELSE /\ writers' = [writers EXCEPT ![w] = RegionWriter(store, call.val, argv)]
       /\ store' = [store EXCEPT !.attrs = RegionWriterMeta(store, call.val).attrs,
                                 !.coords = RegionWriterMeta(store, call.val).coords]

WriterArgv(out_zarr_region, root_attrs_json_file, new_attrs) ==
  [out_zarr_region |-> out_zarr_region, root_attrs_json_file |-> root_attrs_json_file,
   new_attrs |-> new_attrs]

\* dodola apply-qdm --out-zarr-region ..., by process w.
ApplyQdm(w, years, out_zarr_region, root_attrs_json_file, new_attrs) ==
  /\ store.primed /\ store.kind = "qdm"
  /\ writers[w].pc = "idle"
  /\ WriterStep(w, ApplyQdmCli(years, <<>>, <<>>, out_zarr_region, root_attrs_json_file, new_attrs),
                WriterArgv(out_zarr_region, root_attrs_json_file, new_attrs))
  /\ UNCHANGED <<cli, qdm, qplad, wdf>>

\* dodola apply-qplad --out-zarr-region ..., by process w.
ApplyQplad(w, out_zarr_region, root_attrs_json_file, new_attrs) ==
  /\ store.primed /\ store.kind = "qplad"
  /\ writers[w].pc = "idle"
  /\ WriterStep(w, ApplyQpladCli(<<>>, <<>>, out_zarr_region, root_attrs_json_file, new_attrs, FALSE),
                WriterArgv(out_zarr_region, root_attrs_json_file, new_attrs))
  /\ UNCHANGED <<cli, qdm, qplad, wdf>>

\* Process w writes one of the chunks it still has to write.
WriteChunk(w, ch) ==
  /\ writers[w].pc = "writing"
  /\ ch \in writers[w].pending
  /\ store' = [store EXCEPT !.data = ChunkWritten(store, w, writers[w].region, ch)]
  /\ writers' = [writers EXCEPT ![w].pending = @ \ {ch},
                                ![w].written = @ + 1,
                                ![w].pc = IF writers[w].pending = {ch} THEN "done" ELSE "writing"]
  /\ UNCHANGED <<cli, qdm, qplad, wdf>>

\* The option values the store commands are run with.
PrimeYearsArgs == {YearsArg(a, b) : a \in SimYears, b \in SimYears}
RegionDimsArgs == {DimT, DimT \o <<",">> \o DimY}
Geometries == {g \in [Dims -> 1..MaxChunk] : g[DimY] <= NY}

IndexRanges(n) == {r \in (0..n) \X (0..n) : r[1] < r[2]}

\* --out-zarr-region for a store of the given extent: a range on t; a range
\* on t and one on y; and an entry that lacks its "=".
RegionArgsT(extent) == {<<RangeArg(DimT, r[1], r[2])>> : r \in IndexRanges(extent[DimT])}

RegionArgsTY(extent) ==
  {<<RangeArg(DimT, r[1], r[2]), RangeArg(DimY, q[1], q[2])>> :
     r \in IndexRanges(extent[DimT]), q \in IndexRanges(extent[DimY])}

\* The whole of t and a range on y.
RegionArgsWholeTY(extent) ==
  {<<RangeArg(DimT, 0, extent[DimT]), RangeArg(DimY, q[1], q[2])>> : q \in IndexRanges(extent[DimY])}

RegionArgsBad == {<<DimT \o <<"0", ",", "1">>>>}

JsonArgs == {None} \cup {Some(f) : f \in JsonFiles}

AttrKeys == {<<"a">>, <<"b">>, <<"c">>, <<"d">>}
AttrVals == {<<"o">>, <<"p">>}

\* --new-attrs given not at all, once, or twice.
NewAttrsArgs ==
  {<<>>}
  \cup {<<AttrArg(k, <<"o">>)>> : k \in AttrKeys}
  \cup {<<AttrArg(k1, <<"o">>), AttrArg(k2, <<"p">>)>> : k1 \in {<<"a">>, <<"b">>}, k2 \in AttrKeys}

WriterAttrsArgs == {<<>>} \cup {<<AttrArg(k, <<"p">>)>> : k \in AttrKeys}

Init ==
  /\ store = Unprimed
  /\ writers = [w \in Writers |-> IdleWriter]
  /\ cli = CliIdle
  /\ qdm = QdmIdle
  /\ qplad = QpladIdle
  /\ wdf = WdfIdle

(***************************************************************************)
(* Spec: every chunk and region geometry, every region on one or two       *)
(* dimensions, one writer process.                                         *)
(***************************************************************************)
Next ==
  \/ \E years \in PrimeYearsArgs, dims \in RegionDimsArgs, hint \in Geometries, gran \in Geometries :
       gran[DimY] = hint[DimY] /\ PrimeQdm(years, dims, hint, gran, None, <<>>)
  \/ \E dims \in RegionDimsArgs, hint \in Geometries, gran \in Geometries :
       gran[DimY] = hint[DimY] /\ PrimeQplad(dims, hint, gran, None, <<>>)
  \/ \E region \in RegionArgsT(store.extent) \cup RegionArgsTY(store.extent) \cup RegionArgsBad :
       ApplyQdm("w1", store.argv.years, region, None, <<>>)
  \/ \E region \in RegionArgsT(store.extent) \cup RegionArgsTY(store.extent) \cup RegionArgsBad :
       ApplyQplad("w1", region, None, <<>>)
  \/ \E w \in Writers : \E ch \in writers[w].pending : WriteChunk(w, ch)

Spec == Init /\ [][Next]_vars

(***************************************************************************)
(* SpecWriters: the writer processes side by side on a store primed for    *)
(* the whole simulation with regions on t, their chunk writes interleaved. *)
(***************************************************************************)
WholeYears ==
  {YearsArg(a, b) : a \in {y \in SimYears : \A z \in SimYears : y <= z},
                    b \in {y \in SimYears : \A z \in SimYears : y >= z}}

GeometriesT == {g \in Geometries : g[DimY] = NY}

NextWriters ==
  \/ \E years \in WholeYears, hint \in GeometriesT :
       PrimeQdm(years, DimT, hint, hint, None, <<>>)
  \/ \E hint \in GeometriesT : PrimeQplad(DimT, hint, hint, None, <<>>)
  \/ \E w \in Writers, region \in RegionArgsT(store.extent) \cup RegionArgsWholeTY(store.extent) :
       ApplyQdm(w, store.argv.years, region, None, <<>>)
  \/ \E w \in Writers, region \in RegionArgsT(store.extent) \cup RegionArgsWholeTY(store.extent) :
       ApplyQplad(w, region, None, <<>>)
  \/ \E w \in Writers : \E ch \in writers[w].pending : WriteChunk(w, ch)

SpecWriters == Init /\ [][NextWriters]_vars

(***************************************************************************)
(* SpecAttrs: every combination of JSON file and --new-attrs, at priming   *)
(* and at each region write, on a store chunked by year.                   *)
(***************************************************************************)
YearChunks == [d \in Dims |-> IF d = DimT THEN StepsPerYear ELSE NY]

NextAttrs ==
  \/ \E years \in WholeYears, json \in JsonArgs, attrs \in NewAttrsArgs :
       PrimeQdm(years, DimT, YearChunks, YearChunks, json, attrs)
  \/ \E json \in JsonArgs, attrs \in NewAttrsArgs :
       PrimeQplad(DimT, YearChunks, YearChunks, json, attrs)
  \/ \E region \in RegionArgsT(store.extent), json \in JsonArgs, attrs \in WriterAttrsArgs :
       ApplyQdm("w1", store.argv.years, region, json, attrs)
  \/ \E region \in RegionArgsT(store.extent), json \in JsonArgs, attrs \in WriterAttrsArgs :
       ApplyQplad("w1", region, json, attrs)
  \/ \E w \in Writers : \E ch \in writers[w].pending : WriteChunk(w, ch)

SpecAttrs == Init /\ [][NextAttrs]_vars


(***************************************************************************)
(* The region a writer asked for, read off the command line as the users   *)
(* of the commands mean it: "dim=start,stop" is the half-open index range  *)
(* from start to stop on dim.                                              *)
(***************************************************************************)
Requested(st, arg, d) ==
  {r \in (0..st.extent[d]) \X (0..st.extent[d]) :
     \E i \in 1..Len(arg) : arg[i] = RangeArg(d, r[1], r[2])}

OnChunkGrid(st, d, i) ==
  i = st.extent[d] \/ \E k \in 0..st.extent[d] : i = k * st.chunks[d]

MisalignedArg(st, arg) ==
  \E d \in Dims : \E r \in Requested(st, arg, d) :
    ~OnChunkGrid(st, d, r[1]) \/ ~OnChunkGrid(st, d, r[2])

WellFormedArg(st, arg) ==
  \A i \in 1..Len(arg) : \E d \in Dims : \E r \in Requested(st, arg, d) :
    arg[i] = RangeArg(d, r[1], r[2])

ArgCovers(st, arg, c) ==
  /\ \A r \in Requested(st, arg, DimT) : r[1] <= c[1] /\ c[1] < r[2]
  /\ \A r \in Requested(st, arg, DimY) : r[1] <= c[2] /\ c[2] < r[2]

\* C1: a writer whose region is off the chunk grid on some dimension it
\* restricts ends in AlignmentError; the step that starts it leaves every data
\* cell as it was, and it never writes a chunk afterwards.
C1_MisalignedRegionFails ==
  [][\A w \in Writers :
       /\ (writers[w].pc = "idle" /\ writers'[w].pc # "idle"
           /\ MisalignedArg(store, writers'[w].argv.out_zarr_region))
          => /\ writers'[w].pc = "failed"
             /\ writers'[w].exc = "AlignmentError"
             /\ writers'[w].pending = {}
             /\ store'.data = store.data
       /\ writers[w].exc = "AlignmentError"
          => writers'[w] = writers[w] /\ writers[w].written = 0]_vars

\* A writer failed on a region aligned on t and misaligned on y, while the
\* store already holds data of the other writer.
C1_Witness ==
  \E w \in Writers :
    /\ writers[w].exc = "AlignmentError"
    /\ MisalignedArg(store, writers[w].argv.out_zarr_region)
    /\ \A r \in Requested(store, writers[w].argv.out_zarr_region, DimT) :
         OnChunkGrid(store, DimT, r[1]) /\ OnChunkGrid(store, DimT, r[2])
    /\ \E c \in DOMAIN store.data : store.data[c] \in Writers \ {w}

\* C2: once every writer is done, if their regions were chunk-aligned,
\* pairwise disjoint and together the full extent, each cell holds the value
\* of the one writer whose region covers it.
C2_DisjointWritersFillStore ==
  (/\ store.primed
   /\ \A w \in Writers : writers[w].pc = "done"
                         /\ WellFormedArg(store, writers[w].argv.out_zarr_region)
                         /\ ~MisalignedArg(store, writers[w].argv.out_zarr_region)
   /\ \A c \in DOMAIN store.data :
        Cardinality({w \in Writers : ArgCovers(store, writers[w].argv.out_zarr_region, c)}) = 1)
  => \A c \in DOMAIN store.data : \A w \in Writers :
       ArgCovers(store, writers[w].argv.out_zarr_region, c) => store.data[c] = w

\* Two writers are done with disjoint regions that cover a store of more
\* than one chunk, each having written.
C2_Witness ==
  /\ store.primed
  /\ \A w \in Writers : writers[w].pc = "done" /\ writers[w].written >= 1
                        /\ WellFormedArg(store, writers[w].argv.out_zarr_region)
  /\ \A c \in DOMAIN store.data :
       Cardinality({w \in Writers : ArgCovers(store, writers[w].argv.out_zarr_region, c)}) = 1
  /\ \A w \in Writers : \E c \in DOMAIN store.data : store.data[c] = w

Compatible(c, r) == r % c = 0 \/ c % r = 0

RegionedDims(st) == SeqRange(Split(st.argv.zarr_region_dims, ","))

\* A region that restricts regioned dimensions only, its bounds multiples
\* of the region size of each.
OnGranularity(st, arg) ==
  /\ WellFormedArg(st, arg)
  /\ \A d \in Dims : \A r \in Requested(st, arg, d) :
       /\ d \in RegionedDims(st)
       /\ r[1] % st.argv.gran[d] = 0
       /\ r[2] % st.argv.gran[d] = 0

PrimingSucceedsWhenCompatible ==
  (store.outcome # "none" /\ \A d \in RegionedDims(store) : Compatible(store.argv.hint[d], store.argv.gran[d]))
  => store.primed

YearInputs == SimYears \cup {1999}

\* --years: every pair of years, and texts that are not a pair of integers.
CliYearsArgs ==
  {YearsArg(a, b) : a \in YearInputs, b \in YearInputs}
  \cup {Str(2020), Str(2020) \o <<",">> \o Str(2021) \o <<",">> \o Str(2021),
        Str(2020) \o <<",", "x">>}

CliSelArgs == {<<>>, <<RangeArg(DimT, 2020, 2021)>>, <<DimT>>}
CliIselArgs == {<<>>, <<RangeArg(DimT, 0, 1)>>, <<DimT \o <<"=", "x">>>>}
CliRegionArgs == {<<>>, <<RangeArg(DimT, 0, StepsPerYear)>>}
CliAttrsArgs == {<<>>, <<AttrArg(<<"a">>, <<"o">>)>>}

CliPrimeQdm(years, zarr_region_dims, root_attrs_json_file, new_attrs) ==
  /\ cli.cmd = "none"
  /\ cli' = [cmd |-> "prime-qdm-output-zarrstore",
             argv |-> [years |-> years, zarr_region_dims |-> zarr_region_dims,
                       root_attrs_json_file |-> root_attrs_json_file, new_attrs |-> new_attrs],
             result |-> PrimeQdmCli(years, zarr_region_dims, root_attrs_json_file, new_attrs)]
  /\ UNCHANGED <<store, writers, qdm, qplad, wdf>>

CliPrimeQplad(zarr_region_dims, root_attrs_json_file, new_attrs) ==
  /\ cli.cmd = "none"
  /\ cli' = [cmd |-> "prime-qplad-output-zarrstore",
             argv |-> [zarr_region_dims |-> zarr_region_dims,
                       root_attrs_json_file |-> root_attrs_json_file, new_attrs |-> new_attrs],
             result |-> PrimeQpladCli(zarr_region_dims, root_attrs_json_file, new_attrs)]
  /\ UNCHANGED <<store, writers, qdm, qplad, wdf>>

CliApplyQdm(years, selslice, iselslice, out_zarr_region, root_attrs_json_file, new_attrs) ==
  /\ cli.cmd = "none"
  /\ cli' = [cmd |-> "apply-qdm",
             argv |-> [years |-> years, selslice |-> selslice, iselslice |-> iselslice,
                       out_zarr_region |-> out_zarr_region,
                       root_attrs_json_file |-> root_attrs_json_file, new_attrs |-> new_attrs],
             result |-> ApplyQdmCli(years, selslice, iselslice, out_zarr_region,
                                    root_attrs_json_file, new_attrs)]
  /\ UNCHANGED <<store, writers, qdm, qplad, wdf>>

CliApplyQplad(selslice, iselslice, out_zarr_region, root_attrs_json_file, new_attrs, wetday_post_correction) ==
  /\ cli.cmd = "none"
  /\ cli' = [cmd |-> "apply-qplad",
             argv |-> [selslice |-> selslice, iselslice |-> iselslice,
                       out_zarr_region |-> out_zarr_region,
                       root_attrs_json_file |-> root_attrs_json_file, new_attrs |-> new_attrs,
                       wetday_post_correction |-> wetday_post_correction],
             result |-> ApplyQpladCli(selslice, iselslice, out_zarr_region,
                                      root_attrs_json_file, new_attrs, wetday_post_correction)]
  /\ UNCHANGED <<store, writers, qdm, qplad, wdf>>

NextCli ==
  \/ \E years \in CliYearsArgs, dims \in RegionDimsArgs, json \in JsonArgs, attrs \in CliAttrsArgs :
       CliPrimeQdm(years, dims, json, attrs)
  \/ \E dims \in RegionDimsArgs, json \in JsonArgs, attrs \in CliAttrsArgs :
       CliPrimeQplad(dims, json, attrs)
  \/ \E years \in CliYearsArgs, sel \in CliSelArgs, isel \in CliIselArgs,
        region \in CliRegionArgs, json \in JsonArgs, attrs \in CliAttrsArgs :
       CliApplyQdm(years, sel, isel, region, json, attrs)
  \/ \E sel \in CliSelArgs, isel \in CliIselArgs, region \in CliRegionArgs,
        json \in JsonArgs, attrs \in CliAttrsArgs, post \in BOOLEAN :
       CliApplyQplad(sel, isel, region, json, attrs, post)

SpecCli == Init /\ [][NextCli]_vars

\* The integers a set of years is compared against.
YearUniverse == 1990..2030

\* C6: --years "first,last" is an inclusive range.  When apply-qdm is run
\* with that text and reaches its service, the years it passes are exactly
\* the y with first <= y <= last (none when first > last), and
\* prime-qdm-output-zarrstore run with the same text passes the pair
\* (first, last), whose inclusive range is that same set.
C6_YearsInclusiveRange ==
  \A a \in YearInputs, b \in YearInputs :
    (cli.cmd = "apply-qdm" /\ cli.argv.years = YearsArg(a, b) /\ ~cli.result.raised)
    => /\ cli.result.val.years = {y \in YearUniverse : a <= y /\ y <= b}
       /\ LET p == PrimeQdmCli(cli.argv.years, DimT, None, <<>>)
          IN /\ ~p.raised
             /\ p.val.years = <<a, b>>
             /\ cli.result.val.years =
                  {y \in YearUniverse : p.val.years[1] <= y /\ y <= p.val.years[2]}

C6_Witness ==
  /\ cli.cmd = "apply-qdm"
  /\ cli.argv.years = YearsArg(1999, 2021)
  /\ ~cli.result.raised
  /\ 1999 \in cli.result.val.years /\ 2021 \in cli.result.val.years
  /\ Cardinality(cli.result.val.years) = 23


(***************************************************************************)
(* The adjustment engines (specification 4.3 to 4.7; services.train_qdm,   *)
(* apply_qdm, train_qplad, apply_qplad, correct_wet_day_frequency and      *)
(* dodola.core are not in src/).  One grid cell and one seasonal window:   *)
(* the engines treat each independently.  Values are whole amounts; a      *)
(* ratio of two of them is kept exact, in lowest terms, and a ratio with a *)
(* zero denominator has no value (inf or NaN in floating point), and       *)
(* neither has anything computed from it.                                  *)
(***************************************************************************)
MaxSamples == 3
MaxVal == 2

Kinds == {"additive", "multiplicative"}

Undefined == [defined |-> FALSE, num |-> 0, den |-> 0]

Abs(x) == IF x < 0 THEN 0 - x ELSE x

RECURSIVE Gcd(_, _)
Gcd(a, b) == IF b = 0 THEN a ELSE Gcd(b, a % b)

Ratio(n, d) ==
  IF d = 0 THEN Undefined
  ELSE LET g == Gcd(Abs(n), Abs(d))
       IN [defined |-> TRUE, num |-> (IF d < 0 THEN 0 - n ELSE n) \div g, den |-> Abs(d) \div g]

Num(n) == Ratio(n, 1)

Plus(x, y) ==
  IF ~x.defined \/ ~y.defined THEN Undefined
  ELSE Ratio(x.num * y.den + y.num * x.den, x.den * y.den)

Times(x, y) ==
  IF ~x.defined \/ ~y.defined THEN Undefined
  ELSE Ratio(x.num * y.num, x.den * y.den)

\* A series of up to n time steps with values up to top.
Series(n, top) == UNION {[1..k -> 0..top] : k \in 0..n}

\* "an ascending empirical distribution (sorted sample quantiles)".
RECURSIVE Insert(_, _)
Insert(x, s) ==
  IF s = <<>> THEN <<x>>
  ELSE IF x <= Head(s) THEN <<x>> \o s
  ELSE <<Head(s)>> \o Insert(x, Tail(s))

RECURSIVE SortSamples(_)
SortSamples(s) == IF s = <<>> THEN <<>> ELSE Insert(Head(s), SortSamples(Tail(s)))

\* train_qdm / train_qplad of cli.py: the slices, then the service with kind.
TrainQdmCli(kind, selslice, iselslice) ==
  LET sl == StrSlices(selslice)
      il == IntSlices(iselslice)
  IN IF sl.raised THEN sl
     ELSE IF il.raised THEN il
     ELSE Returned([service |-> "train_qdm", kind |-> kind,
                    sel_slice |-> sl.val, isel_slice |-> il.val])

TrainQpladCli(kind, selslice, iselslice) ==
  LET sl == StrSlices(selslice)
      il == IntSlices(iselslice)
  IN IF sl.raised THEN sl
     ELSE IF il.raised THEN il
     ELSE Returned([service |-> "train_qplad", kind |-> kind,
                    sel_slice |-> sl.val, isel_slice |-> il.val])

\* correct_wetday_frequency of cli.py: x, out and process go to the service.
CorrectWetdayFrequencyCli(process) ==
  Returned([service |-> "correct_wet_day_frequency", process |-> process])

(***************************************************************************)
(* QDM (specification 3, 4.3, 4.4).  The model keeps the two sorted        *)
(* samples of the window; the trained quantiles are the ranks 1..n of a    *)
(* window of n samples, the historical and the reference series covering   *)
(* the same time steps.                                                    *)
(***************************************************************************)
QdmTrain(kind, historical, reference) ==
  IF Len(historical) = 0 \/ Len(reference) = 0
  THEN [pc |-> "failed", exc |-> "InsufficientDataError"]
  ELSE [pc |-> "trained", kind |-> kind,
        hist |-> SortSamples(historical), ref |-> SortSamples(reference)]

\* The quantile rank of a value under a sorted sample: how many samples are
\* no greater, "clamped to the nearest boundary quantile rather than
\* extrapolated".
QdmRank(hist, v) ==
  LET c == Cardinality({i \in 1..Len(hist) : hist[i] <= v})
  IN IF c < 1 THEN 1 ELSE IF c > Len(hist) THEN Len(hist) ELSE c

\* The quantile delta taken the wrong way round.
QdmFactorInverted(kind, hist, ref, q) ==
  IF kind = "additive" THEN Num(hist[q] - ref[q]) ELSE Ratio(hist[q], ref[q])

\* The delta between the reference and the historical value at quantile q:
\* a difference (additive) or a ratio (multiplicative).
QdmFactor(kind, hist, ref, q) ==
  IF kind = "additive" THEN Num(ref[q] - hist[q]) ELSE Ratio(ref[q], hist[q])

\* An apply that extends the reference's quantile function beyond the
\* trained range, one for one with the input.
QdmAdjustExtrapolated(kind, hist, ref, v) ==
  LET n == Len(hist)
      q == IF v > hist[n] THEN n + 1 ELSE QdmRank(hist, v)
      af == IF v > hist[n]
            THEN (IF kind = "additive" THEN Num(ref[n] + (v - hist[n]) - hist[n])
                  ELSE Ratio(ref[n] + (v - hist[n]), hist[n]))
            ELSE QdmFactor(kind, hist, ref, q)
  IN [q |-> q, af |-> af,
      out |-> IF kind = "additive" THEN Plus(Num(v), af) ELSE Times(Num(v), af)]

\* "reference_value_at_q op simulated_value", "the delta applied relative to
\* the simulated value, not the historical baseline": the delta at the
\* value's quantile is added to the value, or multiplies it.
QdmAdjust(kind, hist, ref, v) ==
  LET q == QdmRank(hist, v)
      af == QdmFactor(kind, hist, ref, q)
  IN [q |-> q, af |-> af,
      out |-> IF kind = "additive" THEN Plus(Num(v), af) ELSE Times(Num(v), af)]

\* dodola train-qdm.
TrainQdm(kind, historical, reference) ==
  /\ qdm.pc = "none"
  /\ LET call == TrainQdmCli(kind, <<>>, <<>>)
     IN qdm' = IF call.raised THEN [pc |-> "failed", exc |-> call.exc]
               ELSE QdmTrain(call.val.kind, historical, reference)
  /\ UNCHANGED <<store, writers, cli, qplad, wdf>>

\* One time step of apply-qdm: the value v of the simulation in the window.
AdjustQdm(v) ==
  /\ qdm.pc = "trained"
  /\ LET r == QdmAdjust(qdm.kind, qdm.hist, qdm.ref, v)
     IN qdm' = [pc |-> "applied", kind |-> qdm.kind, hist |-> qdm.hist, ref |-> qdm.ref,
                v |-> v, q |-> r.q, af |-> r.af, out |-> r.out]
  /\ UNCHANGED <<store, writers, cli, qplad, wdf>>

\* The reference reaches twice the historical values.
NextQdm ==
  \/ \E kind \in Kinds, historical \in Series(MaxSamples, MaxVal),
        reference \in Series(MaxSamples, 2 * MaxVal) :
       Len(historical) = Len(reference) /\ TrainQdm(kind, historical, reference)
  \/ \E v \in 0..(MaxVal + 1) : AdjustQdm(v)

SpecQdm == Init /\ [][NextQdm]_vars

ConstantRatio2(hist, ref) == \A i \in 1..Len(hist) : ref[i] = 2 * hist[i]

QpladFactorFineValue(kind, coarse_q, fine_q) == Num(fine_q)

\* "the adjustment factor that would transform the co-located coarse
\* reference's value at that quantile into the fine reference's value at
\* that quantile (subtraction for additive, ratio for multiplicative)".
QpladFactor(kind, coarse_q, fine_q) ==
  IF kind = "additive" THEN Num(fine_q - coarse_q) ELSE Ratio(fine_q, coarse_q)

QpladTrain(kind, coarse_reference, fine_reference) ==
  IF Len(coarse_reference) = 0 \/ Len(fine_reference) = 0
  THEN [pc |-> "failed", exc |-> "InsufficientDataError"]
  ELSE LET coarse == SortSamples(coarse_reference)
           fine == SortSamples(fine_reference)
       IN [pc |-> "trained", kind |-> kind, coarse |-> coarse, fine |-> fine,
           af |-> [q \in 1..Len(fine) |-> QpladFactor(kind, coarse[q], fine[q])]]

\* "the quantile bin of the coarse input value (using the coarse reference
\* distribution implicit in the model)", then "add or multiply".
QpladAdjust(kind, coarse, af, v) ==
  LET q == QdmRank(coarse, v)
  IN [q |-> q,
      out |-> IF kind = "additive" THEN Plus(Num(v), af[q]) ELSE Times(Num(v), af[q])]

\* dodola train-qplad.
TrainQplad(kind, coarse_reference, fine_reference) ==
  /\ qplad.pc = "none"
  /\ LET call == TrainQpladCli(kind, <<>>, <<>>)
     IN qplad' = IF call.raised THEN [pc |-> "failed", exc |-> call.exc]
                 ELSE QpladTrain(call.val.kind, coarse_reference, fine_reference)
  /\ UNCHANGED <<store, writers, cli, qdm, wdf>>

\* One time step of apply-qplad: the coarse bias-corrected value v.
AdjustQplad(v) ==
  /\ qplad.pc = "trained"
  /\ LET r == QpladAdjust(qplad.kind, qplad.coarse, qplad.af, v)
     IN qplad' = [pc |-> "applied", kind |-> qplad.kind, coarse |-> qplad.coarse,
                  fine |-> qplad.fine, af |-> qplad.af, v |-> v, q |-> r.q, out |-> r.out]
  /\ UNCHANGED <<store, writers, cli, qdm, wdf>>

NextQplad ==
  \/ \E kind \in Kinds, coarse_reference \in Series(MaxSamples, MaxVal),
        fine_reference \in Series(MaxSamples, MaxVal) :
       Len(coarse_reference) = Len(fine_reference)
       /\ TrainQplad(kind, coarse_reference, fine_reference)
  \/ \E v \in 0..(MaxVal + 1) : AdjustQplad(v)

SpecQplad == Init /\ [][NextQplad]_vars

Identity(kind) == IF kind = "additive" THEN Num(0) ELSE Num(1)

Dry(s) == Cardinality({i \in DOMAIN s : s[i] = 0})

Wet(s) == {i \in DOMAIN s : s[i] # 0}

\* The largest values instead.
LargestWet(s, k) ==
  {K \in SUBSET Wet(s) : Cardinality(K) = k /\ \A i \in K, j \in Wet(s) \ K : s[i] >= s[j]}

\* The ways to pick the k smallest nonzero values of a series; equal values
\* leave a choice.
SmallestWet(s, k) ==
  {K \in SUBSET Wet(s) : Cardinality(K) = k /\ \A i \in K, j \in Wet(s) \ K : s[i] <= s[j]}

\* How many values post mode zeroes, "up to the deficit/excess count": the
\* deficit of dry time steps against the reference; with an excess of them,
\* either none or as many as the excess, as far as there are wet ones.
ZeroCounts(ds, ref) ==
  LET deficit == Dry(ref) - Dry(ds)
      wet == Cardinality(Wet(ds))
  IN IF deficit >= 0 THEN {deficit}
     ELSE {0, IF 0 - deficit > wet THEN wet ELSE 0 - deficit}

\* The series post mode can return.
WetdayPost(ds, ref) ==
  {[i \in DOMAIN ds |-> IF i \in K THEN 0 ELSE ds[i]] :
     K \in UNION {SmallestWet(ds, k) : k \in ZeroCounts(ds, ref)}}

\* dodola correct-wetday-frequency --process post, and the step of
\* apply-qplad --wetday-post-correction true after the analog adjustment.
CorrectWetdayFrequency(process, ds, ref) ==
  /\ wdf.pc = "none"
  /\ LET call == CorrectWetdayFrequencyCli(process)
     IN \E out \in WetdayPost(ds, ref) :
          wdf' = [pc |-> "done", process |-> call.val.process, ds |-> ds, ref |-> ref, out |-> out]
  /\ UNCHANGED <<store, writers, cli, qdm, qplad>>

NextWdf ==
  \E ds \in Series(MaxSamples, MaxVal), ref \in Series(MaxSamples, MaxVal) :
    Len(ds) = Len(ref) /\ CorrectWetdayFrequency("post", ds, ref)

SpecWdf == Init /\ [][NextWdf]_vars

\* The only values changed are smallest nonzero values, set to zero: every
\* value that changed was nonzero, is now 0, and was no greater than any
\* value still nonzero.
OnlySmallestZeroed(ds, out) ==
  \A i \in DOMAIN ds :
    out[i] # ds[i] => /\ out[i] = 0
                      /\ \A j \in DOMAIN out : out[j] # 0 => ds[i] <= out[j]

MaxCalls == 2

WrappedServices ==
  {"bias_correct", "build_weights", "rechunk", "regrid", "clean_cmip6",
   "remove_leapdays", "disaggregate", "get_attrs"}

AttrsJsonTexts == {"{}", "{a: s}"}

\* What the wrapped function itself can do when called: disaggregate raises
\* NotImplementedError; get_attrs returns a JSON text; the others return
\* None; each that reads or writes storage can fail with that I/O's error.
FuncOutcomes(service) ==
  CASE service = "disaggregate" -> {Raised("NotImplementedError")}
    [] service = "get_attrs" -> {Returned(Some(j)) : j \in AttrsJsonTexts} \cup {Raised("OSError")}
    [] OTHER -> {Returned(None), Raised("OSError")}

NotYet == [pending |-> TRUE]

\* logger.info(...)
LogInfo(log, msg, service, call) ==
  Append(log, [msg |-> msg, service |-> service, call |-> call])

\* A wrapper that catches what the function raises and carries on.
AfterFuncSwallowed(outcome) == [pc |-> "returned", caller |-> NotYet]

\* The call of func with the arguments given, as a statement of service_logger, with no try
\* around it: an exception leaves service_logger for the caller; a normal
\* return goes on to the next statement, the value returned being dropped.
AfterFunc(outcome) ==
  IF outcome.raised THEN [pc |-> "raised", caller |-> outcome]
  ELSE [pc |-> "returned", caller |-> NotYet]

\* click.echo(message): the text and a newline; nothing but the newline for
\* None.
Echo(message) == IF message.some THEN message.val ELSE ""

\* A call of a wrapped service enters service_logger:
\* logger.info(f"Starting {servicename} dodola service").
ServiceLoggerStart(service) ==
  /\ \/ cli.cmd = "none"
     \/ cli.cmd = "service" /\ cli.pc \in {"done", "raised", "echoed"} /\ cli.call < MaxCalls
  /\ LET prev == IF cli.cmd = "none"
                 THEN [log |-> <<>>, call |-> 0, ended |-> <<>>, stdout |-> <<>>]
                 ELSE cli
     IN cli' = [cmd |-> "service", service |-> service, pc |-> "func", invoked |-> 0,
                call |-> prev.call + 1,
                log |-> LogInfo(prev.log, "Starting", service, prev.call + 1),
                func |-> NotYet, caller |-> NotYet,
                ended |-> prev.ended, stdout |-> prev.stdout]
  /\ UNCHANGED <<store, writers, qdm, qplad, wdf>>

\* The wrapped function runs: the one call of func in service_logger.
ServiceFunc(outcome) ==
  /\ cli.cmd = "service" /\ cli.pc = "func"
  /\ outcome \in FuncOutcomes(cli.service)
  /\ LET r == AfterFunc(outcome)
     IN cli' = [cli EXCEPT !.invoked = @ + 1, !.func = outcome,
                           !.pc = r.pc, !.caller = r.caller,
                           !.ended = IF r.pc = "raised"
                                     THEN Append(@, [func |-> outcome, caller |-> r.caller])
                                     ELSE @]
  /\ UNCHANGED <<store, writers, qdm, qplad, wdf>>

\* logger.info(f"dodola service {servicename} done"), and service_logger
\* ends without a return statement: its caller gets None.
ServiceLoggerDone ==
  /\ cli.cmd = "service" /\ cli.pc = "returned"
  /\ cli' = [cli EXCEPT !.pc = "done", !.caller = Returned(None),
                        !.log = LogInfo(@, "done", cli.service, cli.call),
                        !.ended = Append(@, [func |-> cli.func, caller |-> Returned(None)])]
  /\ UNCHANGED <<store, writers, qdm, qplad, wdf>>

\* get_attrs of cli.py: click.echo of what services.get_attrs handed back.
GetAttrsEcho ==
  /\ cli.cmd = "service" /\ cli.service = "get_attrs" /\ cli.pc = "done"
  /\ cli' = [cli EXCEPT !.pc = "echoed", !.stdout = Append(@, Echo(cli.caller.val))]
  /\ UNCHANGED <<store, writers, qdm, qplad, wdf>>

NextServices ==
  \/ \E service \in WrappedServices : ServiceLoggerStart(service)
  \/ \E outcome \in UNION {FuncOutcomes(s) : s \in WrappedServices} : ServiceFunc(outcome)
  \/ ServiceLoggerDone
  \/ GetAttrsEcho

SpecServices == Init /\ [][NextServices]_vars

\* The positions in the log of the messages msg of call k.
Logged(msg, k) == {i \in 1..Len(cli.log) : cli.log[i].msg = msg /\ cli.log[i].call = k}

\* C11: each call of a wrapped service invokes the wrapped function exactly
\* once (never a second time, and once when the call has ended), with the
\* start message logged once, before the invocation; if the function raised,
\* the caller got that same exception and no 'done' message is logged for
\* the call; 'done' is logged only for a call whose function returned, and
\* after its start message.
C11_SurfacedNeverRetried ==
  cli.cmd = "service"
  => /\ cli.invoked = (IF cli.pc = "func" THEN 0 ELSE 1)
     /\ \A k \in 1..cli.call : Cardinality(Logged("Starting", k)) = 1
     /\ cli.pc = "raised"
          => cli.func.raised /\ cli.caller = cli.func /\ Logged("done", cli.call) = {}
     /\ cli.pc \in {"func", "returned"} => Logged("done", cli.call) = {}
     /\ \A k \in 1..Len(cli.ended) :
          IF cli.ended[k].func.raised
          THEN cli.ended[k].caller = cli.ended[k].func /\ Logged("done", k) = {}
          ELSE /\ Cardinality(Logged("done", k)) = 1
               /\ \A i \in Logged("Starting", k), j \in Logged("done", k) : i < j

C11_Witness ==
  /\ cli.cmd = "service" /\ cli.service = "disaggregate" /\ cli.pc = "raised"
  /\ cli.call = 2 /\ cli.invoked = 1
  /\ cli.caller = Raised("NotImplementedError")
  /\ ~cli.ended[1].func.raised /\ Logged("done", 1) # {}
  /\ Logged("Starting", 2) # {} /\ Logged("done", 2) = {}

\* C13 as stated: a call through a wrapped service hands its caller the
\* value the wrapped function returned, and get_attrs prints the JSON text
\* the service function computed.
C13_AsClaimed ==
  (cli.cmd = "service" /\ cli.pc \in {"done", "echoed"})
  => /\ cli.caller = cli.func
     /\ cli.pc = "echoed" => cli.stdout[Len(cli.stdout)] = cli.func.val.val


(***************************************************************************)
(* SpecCommands: the commands that take selections (apply-qdm, apply-qplad, *)
(* train-qdm, train-qplad) and the post-processor commands with a bound     *)
(* option (adjust-maximum-precipitation, apply-dtr-floor,                  *)
(* apply-non-polar-dtr-ceiling), each run once; recorded is the call made  *)
(* on the service or the exception raised before it.                       *)
(***************************************************************************)
\* A value a command function's parameter is bound to: None, a text from
\* the command line, or a float of the program.
StrValue(text) == [some |-> TRUE, type |-> "str", val |-> text]
FloatValue(x) == [some |-> TRUE, type |-> "float", val |-> x]

\* The defaults in the signatures of the post-processor commands: 3000.0,
\* 1.0 and 70.0.
ThresholdDefault == 3000
FloorDefault == 1
CeilingDefault == 70

\* What click hands the command function for an option: the text given on
\* the command line, or the default= of click.option when it is omitted.
\* --threshold, --floor and --ceiling declare no default=, which is None.
ClickOption(given, option_default) == IF given.some THEN StrValue(given.val) ELSE option_default

\* Python binds a parameter to the argument passed for it, and to the
\* default of the signature only when no argument is passed.  click calls
\* the command function with every declared option as a keyword argument.
BindParam(passed, value, signature_default) ==
  IF passed THEN value ELSE FloatValue(Num(signature_default))

RECURSIVE Pow10(_)
Pow10(k) == IF k = 0 THEN 1 ELSE 10 * Pow10(k - 1)

\* float(x): a float as it is; a text of decimal digits with at most one
\* point and an optional sign (the texts of this model hold no exponent, no
\* blanks, no inf or nan) as its value, any other text ValueError; None
\* TypeError.
Float(x) ==
  IF ~x.some THEN Raised("TypeError")
  ELSE IF x.type = "float" THEN Returned(x.val)
  ELSE LET signed == Len(x.val) >= 1 /\ x.val[1] \in {"-", "+"}
           body == IF signed THEN Tail(x.val) ELSE x.val
           parts == Split(body, ".")
           whole == parts[1]
           frac == IF Len(parts) = 2 THEN parts[2] ELSE <<>>
       IN IF Len(parts) > 2 \/ Len(whole \o frac) = 0
             \/ \E i \in 1..Len(whole \o frac) : (whole \o frac)[i] \notin Digits
          THEN Raised("ValueError")
          ELSE Returned(Ratio((IF signed /\ x.val[1] = "-" THEN 0 - 1 ELSE 1)
                                * DigitsVal(whole \o frac), Pow10(Len(frac))))

AdjustMaximumPrecipitationCli(threshold) ==
  LET f == Float(BindParam(TRUE, ClickOption(threshold, None), ThresholdDefault))
  IN IF f.raised THEN f
     ELSE Returned([service |-> "adjust_maximum_precipitation", threshold |-> f.val])

ApplyDtrFloorCli(floor) ==
  LET f == Float(BindParam(TRUE, ClickOption(floor, None), FloorDefault))
  IN IF f.raised THEN f
     ELSE Returned([service |-> "apply_dtr_floor", floor |-> f.val])

ApplyNonPolarDtrCeilingCli(ceiling) ==
  LET f == Float(BindParam(TRUE, ClickOption(ceiling, None), CeilingDefault))
  IN IF f.raised THEN f
     ELSE Returned([service |-> "apply_non_polar_dtr_ceiling", ceiling |-> f.val])

CliAdjustMaximumPrecipitation(threshold) ==
  /\ cli.cmd = "none"
  /\ cli' = [cmd |-> "adjust-maximum-precipitation", argv |-> [bound |-> threshold],
             result |-> AdjustMaximumPrecipitationCli(threshold)]
  /\ UNCHANGED <<store, writers, qdm, qplad, wdf>>

CliApplyDtrFloor(floor) ==
  /\ cli.cmd = "none"
  /\ cli' = [cmd |-> "apply-dtr-floor", argv |-> [bound |-> floor],
             result |-> ApplyDtrFloorCli(floor)]
  /\ UNCHANGED <<store, writers, qdm, qplad, wdf>>

CliApplyNonPolarDtrCeiling(ceiling) ==
  /\ cli.cmd = "none"
  /\ cli' = [cmd |-> "apply-non-polar-dtr-ceiling", argv |-> [bound |-> ceiling],
             result |-> ApplyNonPolarDtrCeilingCli(ceiling)]
  /\ UNCHANGED <<store, writers, qdm, qplad, wdf>>

CliTrainQdm(kind, selslice, iselslice) ==
  /\ cli.cmd = "none"
  /\ cli' = [cmd |-> "train-qdm",
             argv |-> [kind |-> kind, selslice |-> selslice, iselslice |-> iselslice,
                       out_zarr_region |-> <<>>],
             result |-> TrainQdmCli(kind, selslice, iselslice)]
  /\ UNCHANGED <<store, writers, qdm, qplad, wdf>>

CliTrainQplad(kind, selslice, iselslice) ==
  /\ cli.cmd = "none"
  /\ cli' = [cmd |-> "train-qplad",
             argv |-> [kind |-> kind, selslice |-> selslice, iselslice |-> iselslice,
                       out_zarr_region |-> <<>>],
             result |-> TrainQpladCli(kind, selslice, iselslice)]
  /\ UNCHANGED <<store, writers, qdm, qplad, wdf>>

\* The bound option: omitted, or given as a text.
BoundArgs ==
  {None, Some(<<"5">>), Some(<<"2", ".", "5">>), Some(<<"-", "1">>), Some(<<"x">>),
   Some(<<"1", ".", "2", ".", "3">>)}

\* Selections in the documented form: none, one entry, an entry for each
\* dimension, an entry with one bound, an entry with a step.
\* "dim=stop" and "dim=start,stop,step"
StopArg(dim, stop) == dim \o <<"=">> \o Str(stop)
StepArg(dim, start, stop, step) == RangeArg(dim, start, stop) \o <<",">> \o Str(step)

SelGood ==
  {<<>>, <<RangeArg(DimT, 2020, 2021)>>, <<RangeArg(DimT, 2020, 2021), RangeArg(DimY, 0, 1)>>,
   <<StopArg(DimT, 2021)>>}

IselGood ==
  {<<>>, <<RangeArg(DimT, 0, 1)>>, <<RangeArg(DimT, 0, 2), RangeArg(DimY, 1, 2)>>,
   <<StopArg(DimT, 2)>>, <<StepArg(DimT, 0, 2, 1)>>}

\* Entries without "=", with two of them, and after a good entry.
NoSingleEq ==
  {<<DimT>>, <<DimT \o <<"=", "0", "=", "1">>>>, <<RangeArg(DimT, 0, 1), DimY>>}

\* Index entries with a bound that is not an integer.
NonIntegerBound ==
  {<<DimT \o <<"=", "0", ",", "x">>>>, <<DimT \o <<"=", "1", ".", "5">>>>,
   <<RangeArg(DimT, 0, 1), DimY \o <<"=">>>>}

\* An entry with more bounds than a range takes.
TooManyBounds == {<<DimT \o <<"=", "0", ",", "1", ",", "1", ",", "2">>>>}

SelArgs == SelGood \cup NoSingleEq \cup TooManyBounds
IselArgs == IselGood \cup NoSingleEq \cup NonIntegerBound \cup TooManyBounds

NextCommands ==
  \/ \E sel \in SelArgs, isel \in IselArgs, region \in IselArgs :
       CliApplyQdm(YearsArg(2020, 2021), sel, isel, region, None, <<>>)
  \/ \E sel \in SelArgs, isel \in IselArgs, region \in IselArgs :
       CliApplyQplad(sel, isel, region, None, <<>>, FALSE)
  \/ \E kind \in Kinds, sel \in SelArgs, isel \in IselArgs : CliTrainQdm(kind, sel, isel)
  \/ \E kind \in Kinds, sel \in SelArgs, isel \in IselArgs : CliTrainQplad(kind, sel, isel)
  \/ \E threshold \in BoundArgs : CliAdjustMaximumPrecipitation(threshold)
  \/ \E floor \in BoundArgs : CliApplyDtrFloor(floor)
  \/ \E ceiling \in BoundArgs : CliApplyNonPolarDtrCeiling(ceiling)

SpecCommands == Init /\ [][NextCommands]_vars

\* C12 as stated: with the bound option omitted, each post-processor
\* command reaches its service, with the default of its signature: threshold
\* 3000.0, floor 1.0, ceiling 70.0.
C12_AsClaimed ==
  /\ (cli.cmd = "adjust-maximum-precipitation" /\ ~cli.argv.bound.some)
       => ~cli.result.raised /\ cli.result.val.threshold = Num(ThresholdDefault)
  /\ (cli.cmd = "apply-dtr-floor" /\ ~cli.argv.bound.some)
       => ~cli.result.raised /\ cli.result.val.floor = Num(FloorDefault)
  /\ (cli.cmd = "apply-non-polar-dtr-ceiling" /\ ~cli.argv.bound.some)
       => ~cli.result.raised /\ cli.result.val.ceiling = Num(CeilingDefault)

SelectionCommands == {"apply-qdm", "apply-qplad", "train-qdm", "train-qplad"}

\* An entry of the option lacks exactly one "=".
LacksSingleEq(entries) ==
  \E i \in 1..Len(entries) :
    Cardinality({j \in 1..Len(entries[i]) : entries[i][j] = "="}) # 1

BoundInputs == {0, 1, 2, 2020, 2021}

\* The mapping holds, for each entry of the option in the documented form,
\* the range with the entry's bounds under the entry's dimension: the bounds
\* as texts (labels) or as the integers the texts denote (indices).
RangesAsGiven(entries, parsed, labels) ==
  LET B(n) == IF labels THEN Str(n) ELSE n
  IN IF entries = <<>> THEN parsed = None
     ELSE /\ parsed.some
          /\ DOMAIN parsed.val = {Split(entries[i], "=")[1] : i \in 1..Len(entries)}
          /\ \A i \in 1..Len(entries), dim \in Dims, a \in BoundInputs, b \in BoundInputs :
               /\ entries[i] = RangeArg(dim, a, b)
                    => parsed.val[dim] = [start |-> Some(B(a)), stop |-> Some(B(b)), step |-> None]
               /\ entries[i] = StopArg(dim, b)
                    => parsed.val[dim] = [start |-> None, stop |-> Some(B(b)), step |-> None]
               /\ \A c \in BoundInputs :
                    entries[i] = StepArg(dim, a, b, c)
                    => parsed.val[dim] = [start |-> Some(B(a)), stop |-> Some(B(b)),
                                           step |-> Some(B(c))]

=============================================================================
